---- MODULE Spec2Model ----
(***************************************************************************)
(* Review Hound: the ingestion pipeline.                                   *)
(*                                                                         *)
(* Three copies of the per-source ingestor exist in the code base:         *)
(*   services.run_scraper_for_business  (used by the web handlers),        *)
(*   cli._run_scraper                   (the `scrape` command),            *)
(*   scheduler._run_scraper_job         (the periodic job),                *)
(* plus services.save_scraped_reviews, which stores an already scraped     *)
(* list.  Each is modelled step by step: ScrapeLog creation, the adapter   *)
(* call, and per candidate the existence query, the insert and the alert   *)
(* evaluation.  A worker is one thread with its own database session.      *)
(***************************************************************************)
EXTENDS Integers, Sequences, FiniteSets

\* ------------------------------------------------------------------ bounds
MaxRuns == 2        \* ScrapeLogs created in one behaviour, one worker
MaxRunsConc == 3    \* the same, with two workers
MaxRunsShared == 3  \* the same, in a sweep over businesses that share a listing
MaxAlerts == 2      \* AlertConfig ids given out in one behaviour

\* -------------------------------------------------------------- constants
BusinessIds == {1, 2, 3}
ExternalIds == {"e1", "e2"}
Providers == {"google_places", "yelp_fusion"}
ScraperKinds == {"GooglePlacesScraper", "YelpAPIScraper", "YelpScraper",
                 "TrustPilotScraper", "BBBScraper"}
Workers == {"w1", "w2"}
Emails == {"a@x", "b@x"}

\* no such row / nothing computed yet
NoConfig == [stored |-> FALSE]
NoResult == [op |-> "none"]
NoCommand == [op |-> "none"]

\* values of the --threshold option, in stars
Thresholds == {2, 3}

\* scraper.source, the tag stored on Reviews and ScrapeLogs
ScraperSource(kind) ==
    CASE kind = "TrustPilotScraper" -> "trustpilot"
      [] kind = "BBBScraper" -> "bbb"
      [] kind = "YelpScraper" -> "yelp"
      [] kind = "YelpAPIScraper" -> "yelp_api"
      [] kind = "GooglePlacesScraper" -> "google_places"

Sources == {ScraperSource(k) : k \in ScraperKinds}

\* The businesses of the store: which identifiers each one has set.
YelpBusiness ==
    [trustpilot_url |-> FALSE, bbb_url |-> FALSE, yelp_url |-> TRUE,
     google_place_id |-> FALSE, yelp_business_id |-> TRUE]
BbbBusiness ==
    [trustpilot_url |-> FALSE, bbb_url |-> TRUE, yelp_url |-> FALSE,
     google_place_id |-> TRUE, yelp_business_id |-> FALSE]

\* a business with no source configured
BareBusiness ==
    [trustpilot_url |-> FALSE, bbb_url |-> FALSE, yelp_url |-> FALSE,
     google_place_id |-> FALSE, yelp_business_id |-> FALSE]

\* a business listed on Yelp and on the BBB
YelpBbbBusiness ==
    [trustpilot_url |-> FALSE, bbb_url |-> TRUE, yelp_url |-> TRUE,
     google_place_id |-> FALSE, yelp_business_id |-> FALSE]

\* a business known by its Google place id alone
ApiOnlyBusiness ==
    [trustpilot_url |-> FALSE, bbb_url |-> FALSE, yelp_url |-> FALSE,
     google_place_id |-> TRUE, yelp_business_id |-> FALSE]

\* Business tables for the web handler: business 1 has API sources, URL
\* sources, both or none
WebTables ==
    {<<b, BareBusiness, BareBusiness>> :
        b \in {ApiOnlyBusiness, BbbBusiness, YelpBusiness, YelpBbbBusiness, BareBusiness}}

\* two Business rows that point at the same Yelp listing
SharedListing == <<YelpBbbBusiness, YelpBusiness, BareBusiness>>

\* The Business tables a behaviour starts from.
BusinessTables == {<<YelpBusiness, BbbBusiness, BareBusiness>>}

\* every combination of identifiers a Business row can hold
BusinessRows ==
    [trustpilot_url : BOOLEAN, bbb_url : BOOLEAN, yelp_url : BOOLEAN,
     google_place_id : BOOLEAN, yelp_business_id : BOOLEAN]

\* APIConfig rows: per provider no row, a row with enabled=False, or an
\* enabled row
ApiConfigStates == {"absent", "disabled", "enabled"}

\* Numbers of the scorer are in hundredths: 0.1 is 10, a polarity of -1.0 is
\* -100; a score is in ten-thousandths (the product of two of them).
SENTIMENT_THRESHOLD == 10

\* review_data["text"]: the empty string, white space only, or words with
\* the polarity TextBlob gives them
Empty == [kind |-> "empty", polarity |-> 0]
Blank == [kind |-> "blank", polarity |-> 0]
Words(p) == [kind |-> "words", polarity |-> p]

\* review_data.get("rating") is None
Absent == 0
Ratings == {Absent, 1, 2, 3, 4, 5}

\* A candidate as an adapter returns it.
Cand(id) == [external_id |-> id, rating |-> 2, text |-> Words(60)]

\* the same external record scraped again after its author edited it
Rescraped(c) == [c EXCEPT !.rating = 5, !.text = Words(-50)]

Candidates == {Cand(id) : id \in ExternalIds} \cup {Rescraped(Cand(id)) : id \in ExternalIds}

\* What one adapter call may return: nothing, one record, two records, the
\* same record twice.
CandidateLists ==
    {<<>>, <<Cand("e1")>>, <<Cand("e2")>>, <<Cand("e1"), Cand("e2")>>,
     <<Cand("e1"), Cand("e1")>>}

\* a record with the given rating
Rated(id, rating) == [Cand(id) EXCEPT !.rating = rating]

\* The lists the adapters may return when it is the rating that matters.
RatedLists == {<<Rated("e1", 3), Rated("e2", Absent)>>}

\* a record with the given rating and text
Scored(id, rating, text) == [external_id |-> id, rating |-> rating, text |-> text]

\* The lists the adapters may return when it is the scoring that matters:
\* five stars with faintly positive words, no rating and white space, one
\* star with the most negative words, no rating and words at the legacy
\* threshold.
ScoredLists ==
    {<<Scored("e1", 5, Words(12))>>, <<Scored("e1", Absent, Blank)>>,
     <<Scored("e2", 1, Words(-100))>>, <<Scored("e2", Absent, Words(10))>>}

\* The lists the adapters may return where one result holds an id twice,
\* with the same or with other data.
RepeatLists ==
    {<<Cand("e1"), Cand("e1")>>, <<Cand("e1"), Rescraped(Cand("e1"))>>, <<Cand("e2")>>}

\* The lists the adapters may return where a record comes back changed.
RescrapeLists == {<<Cand("e1")>>, <<Rescraped(Cand("e1"))>>}

\* the SentimentConfig row of the test fixture: 0.6, 0.4, 0.15
SampleConfig ==
    [stored |-> TRUE, rating_weight |-> 60, text_weight |-> 40, threshold |-> 15]

\* ------------------------------------------------------------ the scorer
\* label for a score (ten-thousandths) and a threshold (hundredths)
label_for(score, threshold) ==
    IF score > threshold * 100 THEN "positive"
    ELSE IF score < -(threshold * 100) THEN "negative"
    ELSE "neutral"

\* analysis/sentiment.py analyze_review(text): the score is the text's
\* polarity, the label is taken against SENTIMENT_THRESHOLD
analyze_review(text) ==
    IF text.kind # "words"
    THEN [score |-> 0, label |-> "neutral"]
    ELSE [score |-> text.polarity * 100,
          label |-> label_for(text.polarity * 100, SENTIMENT_THRESHOLD)]

\* the rating taken as its distance from 3, in stars
rating_component_in_stars(rating) == 100 * (rating - 3)

\* the rating on the 1-5 scale mapped linearly to [-1.0, 1.0], 3 giving 0.0
rating_component(rating) == 50 * (rating - 3)

\* analyze_review(text, rating, rating_weight=, text_weight=, threshold=) as
\* services calls it
analyze_review_weighted(text, rating, rating_weight, text_weight, threshold) ==
    LET text_polarity == IF text.kind = "words" THEN text.polarity ELSE 0
        score == IF rating = Absent
                 THEN text_polarity * 100
                 ELSE rating_weight * rating_component(rating) + text_weight * text_polarity
    IN [score |-> score, label |-> label_for(score, threshold)]

\* services.get_sentiment_weights: the stored row's values; with no row it
\* reads Config.SENTIMENT_RATING_WEIGHT, which Config does not define
get_sentiment_weights(config) ==
    IF config.stored
    THEN [raised |-> FALSE, rating_weight |-> config.rating_weight,
          text_weight |-> config.text_weight, threshold |-> config.threshold]
    ELSE [raised |-> TRUE, rating_weight |-> 0, text_weight |-> 0, threshold |-> 0]

\* the scoring call of each ingestor
score_candidate(trigger, cand, weights) ==
    IF trigger \in {"cli", "scheduler"}
    THEN analyze_review(cand.text)
    ELSE analyze_review_weighted(cand.text, cand.rating, weights.rating_weight,
                                 weights.text_weight, weights.threshold)

\* a SentimentConfig row whose weights sum to 2
HeavyConfig ==
    [stored |-> TRUE, rating_weight |-> 100, text_weight |-> 100, threshold |-> 10]

\* the SentimentConfig rows a behaviour may start with
Policies == {NoConfig, SampleConfig, HeavyConfig}

\* the defaults of the scorer: text only, threshold 0.1
DefaultPolicy ==
    [stored |-> FALSE, rating_weight |-> 0, text_weight |-> 100,
     threshold |-> SENTIMENT_THRESHOLD]

VARIABLES
    catalog,      \* the candidate lists the adapters can return
    outcomes,     \* what a call of the alert evaluator can come to
    fetches,      \* what the network can do to an adapter's page requests
    business,     \* Business rows: id -> configured identifiers
    api_configs,  \* APIConfig rows: provider -> absent / disabled / enabled
    sentiment_config, \* the SentimentConfig row, or NoConfig
    alert_configs,    \* AlertConfig rows: id -> row, or NoConfig
    commands,     \* history: per email, the last `alert` command given for business 1
    result,       \* the last value computed by a function applied on its own
    reviews,      \* Review rows, in insertion order (the row id is the index)
    logs,         \* ScrapeLog rows, in creation order
    worker,       \* per worker: position in the code and its locals
    runs,         \* history, one entry per ScrapeLog: how the attempt went
    alerts,       \* history: the calls of check_and_send_alerts
    adds,         \* history: per (source, external_id), the attempts that did session.add
    conflicts     \* history: flushes the store refused (IntegrityError)

\* what the ingestion pipeline reads and never writes
settings == <<business, api_configs, sentiment_config, alert_configs, commands, result, catalog,
              outcomes, fetches>>

pipeline == <<reviews, logs, worker, runs, alerts, adds, conflicts>>

vars == <<settings, reviews, logs, worker, runs, alerts, adds, conflicts>>

Keys == Sources \X ExternalIds

KeyOf(r) == <<r.source, r.external_id>>

IdleWorker ==
    [pc |-> "idle", trigger |-> "none", businesses |-> <<>>, business |-> 0,
     scrapers |-> <<>>, scraper |-> "none", source |-> "none", send_alerts |-> FALSE,
     cands |-> <<>>, new_count |-> 0, log |-> 0, total_new |-> 0,
     failed_sources |-> <<>>, pending |-> <<>>, raised |-> FALSE,
     response |-> "none", attempted |-> <<>>, planned |-> <<>>, made |-> <<>>,
     start |-> 0, review |-> 0, weights |-> get_sentiment_weights(NoConfig)]

\* ------------------------------------------------------- source selection
SeqIf(cond, x) == IF cond THEN <<x>> ELSE <<>>

\* routes.get_api_config: the provider's APIConfig row, if enabled
get_api_config_ignores_enabled(provider) == api_configs[provider] # "absent"

get_api_config(provider) == api_configs[provider] = "enabled"

\* routes.scrape_business_sources, the scraper list it builds
scrape_business_sources_scrapers(b) ==
    SeqIf(get_api_config("google_places") /\ b.google_place_id, "GooglePlacesScraper")
    \o (IF get_api_config("yelp_fusion") /\ b.yelp_business_id
        THEN <<"YelpAPIScraper">>
        ELSE SeqIf(b.yelp_url, "YelpScraper"))
    \o SeqIf(b.trustpilot_url, "TrustPilotScraper")
    \o SeqIf(b.bbb_url, "BBBScraper")

\* cli._scrape_business, the scraper list it builds
_scrape_business_unguarded(b) ==
    <<"TrustPilotScraper">>
    \o SeqIf(b.bbb_url, "BBBScraper")
    \o SeqIf(b.yelp_url, "YelpScraper")

_scrape_business(b) ==
    SeqIf(b.trustpilot_url, "TrustPilotScraper")
    \o SeqIf(b.bbb_url, "BBBScraper")
    \o SeqIf(b.yelp_url, "YelpScraper")

\* scheduler._scrape_business_job, the scraper list it builds
_scrape_business_job(b) ==
    SeqIf(b.trustpilot_url, "TrustPilotScraper")
    \o SeqIf(b.bbb_url, "BBBScraper")
    \o SeqIf(b.yelp_url, "YelpScraper")

\* routes.trigger_scrape: has_sources
has_sources(b) == b.trustpilot_url \/ b.bbb_url \/ b.yelp_url

\* routes.trigger_scrape: source_count
source_count(b) ==
    (IF b.trustpilot_url THEN 1 ELSE 0) + (IF b.bbb_url THEN 1 ELSE 0)
    + (IF b.yelp_url THEN 1 ELSE 0)

\* routes.trigger_scrape: the response after scrape_business_sources returned
trigger_scrape_response(b, failed) ==
    IF failed # <<>> /\ Len(failed) = source_count(b) THEN "500" ELSE "200"

ScrapersFor(trigger, b) ==
    CASE trigger = "cli" -> _scrape_business(b)
      [] trigger = "scheduler" -> _scrape_business_job(b)
      [] OTHER -> scrape_business_sources_scrapers(b)

\* the (business, scraper) pairs a sweep over the businesses bs selects
RECURSIVE PlannedPairs(_, _)
PlannedPairs(trigger, bs) ==
    IF bs = <<>> THEN <<>>
    ELSE LET ks == ScrapersFor(trigger, business[Head(bs)])
         IN [i \in 1..Len(ks) |-> <<Head(bs), ks[i]>>] \o PlannedPairs(trigger, Tail(bs))

\* ------------------------------------------------------ notification rules
\* AlertConfig(business_id=..., email=..., alert_on_negative=True,
\*             negative_threshold=..., enabled=...)
AlertConfig(business_id, email, threshold, enabled) ==
    [stored |-> TRUE, business_id |-> business_id, email |-> email,
     alert_on_negative |-> TRUE, negative_threshold |-> threshold, enabled |-> enabled]

\* cli.alert where --disable leaves the rule as it was
alert_config_ignores_disable(row, business_id, email, threshold, disable) ==
    IF row.stored
    THEN [row EXCEPT !.negative_threshold = threshold]
    ELSE IF disable THEN row
    ELSE AlertConfig(business_id, email, threshold, TRUE)

\* cli.alert: the AlertConfig row of (business_id, email) after the command,
\* given the row the lookup found (NoConfig if none)
alert_config(row, business_id, email, threshold, disable) ==
    IF row.stored
    THEN [row EXCEPT !.enabled = ~disable, !.negative_threshold = threshold]
    ELSE IF disable THEN row
    ELSE AlertConfig(business_id, email, threshold, TRUE)

\* the evaluator's gate: an enabled rule fires iff the rating is present and
\* at or below the rule's threshold
rule_fires(row, rating) ==
    /\ row.stored
    /\ row.enabled
    /\ rating # Absent
    /\ rating <= row.negative_threshold

\* the rules of the review's business that fire for it
rules_fired(business_id, rating) ==
    {alert_configs[i].email : i \in
        {k \in DOMAIN alert_configs :
            /\ alert_configs[k].stored
            /\ alert_configs[k].business_id = business_id
            /\ rule_fires(alert_configs[k], rating)}}

\* session.query(AlertConfig).filter(business_id == ..., email == ...).first():
\* the id of the first such row, 0 if there is none
first_alert(business_id, email) ==
    LET found == {k \in DOMAIN alert_configs :
                    /\ alert_configs[k].stored
                    /\ alert_configs[k].business_id = business_id
                    /\ alert_configs[k].email = email}
    IN IF found = {} THEN 0 ELSE CHOOSE k \in found : \A l \in found : k <= l

\* the id the store gives the next AlertConfig: one above the highest in use
next_alert_id ==
    LET used == {k \in DOMAIN alert_configs : alert_configs[k].stored}
    IN IF used = {} THEN 1 ELSE 1 + CHOOSE k \in used : \A l \in used : l <= k

\* ------------------------------------------------------------- the store
\* The unique constraint on Review (source, external_id): would flushing
\* the pending rows violate it?
Conflict(stored, pending) ==
    \E i \in DOMAIN pending :
        \/ \E j \in DOMAIN stored : KeyOf(stored[j]) = KeyOf(pending[i])
        \/ \E k \in 1..(i - 1) : KeyOf(pending[k]) = KeyOf(pending[i])

\* session.query(Review).filter(source == .., external_id == ..).first()
existing_misses(stored, source, external_id) == FALSE

\* the same query with the source filter left out
existing_ignores_source(stored, source, external_id) ==
    \E i \in DOMAIN stored : stored[i].external_id = external_id

existing(stored, source, external_id) ==
    \E i \in DOMAIN stored :
        stored[i].source = source /\ stored[i].external_id = external_id

\* the row that query returns
first(stored, source, external_id) ==
    CHOOSE i \in DOMAIN stored :
        stored[i].source = source /\ stored[i].external_id = external_id

\* ScrapeLog(business_id, source, status="running", started_at=now)
ScrapeLog(business_id, source) ==
    [business_id |-> business_id, source |-> source, status |-> "running",
     reviews_found |-> 0, completed |-> FALSE, error_message |-> "none"]

\* Review(business_id, source, external_id, ...); run is history: the
\* ScrapeLog of the attempt that admitted it
Review_loses_external_id(business_id, source, cand, scored, run) ==
    [business_id |-> business_id, source |-> source, external_id |-> "e1",
     rating |-> cand.rating, text |-> cand.text,
     sentiment_score |-> scored.score, sentiment_label |-> scored.label, run |-> run]

Review(business_id, source, cand, scored, run) ==
    [business_id |-> business_id, source |-> source,
     external_id |-> cand.external_id, rating |-> cand.rating, text |-> cand.text,
     sentiment_score |-> scored.score, sentiment_label |-> scored.label, run |-> run]

\* the same with the number of candidates seen left out
mark_success_without_count(log, new_count) ==
    [log EXCEPT !.status = "success", !.completed = TRUE]

\* log.status = "success"; log.reviews_found = new_count; log.completed_at = now
mark_success(log, new_count) ==
    [log EXCEPT !.status = "success", !.reviews_found = new_count, !.completed = TRUE]

\* log.status = "failed"; log.error_message = str(e); log.completed_at = now
mark_failed_as_error(log, e) ==
    [log EXCEPT !.status = "error", !.error_message = e, !.completed = TRUE]

mark_failed(log, e) ==
    [log EXCEPT !.status = "failed", !.error_message = e, !.completed = TRUE]

\* The except clause of each ingestor: what becomes of the ScrapeLog, and
\* whether the exception goes on to the caller.
run_scraper_for_business_swallows(log, e) == [log |-> mark_failed(log, e), reraise |-> FALSE]

run_scraper_for_business_except(log, e) == [log |-> mark_failed(log, e), reraise |-> TRUE]

_run_scraper_except(log, e) == [log |-> mark_failed(log, e), reraise |-> FALSE]

_run_scraper_job_reraises(log, e) == [log |-> mark_failed(log, e), reraise |-> TRUE]

_run_scraper_job_except(log, e) == [log |-> mark_failed(log, e), reraise |-> FALSE]

\* save_scraped_reviews has no try block: the exception leaves the function
save_scraped_reviews_except(log, e) == [log |-> log, reraise |-> TRUE]

ExceptClause(trigger, log, e) ==
    CASE trigger = "cli" -> _run_scraper_except(log, e)
      [] trigger = "scheduler" -> _run_scraper_job_except(log, e)
      [] trigger = "save" -> save_scraped_reviews_except(log, e)
      [] OTHER -> run_scraper_for_business_except(log, e)

\* if existing: continue
on_existing_alerts(me, row) == [me EXCEPT !.pc = "alert", !.review = row]

\* a session made with autoflush=False: a query sees the flushed rows only
autoflush_off(stored, pending) == stored

\* what a query of the session sees: sessionmaker's default autoflush writes
\* the pending rows before the SELECT
autoflush(stored, pending) == stored \o pending

\* the store after `if existing: continue`, seen by a writer of refreshed data
overwrite_existing(stored, source, cand) ==
    LET i == CHOOSE j \in DOMAIN stored :
                 stored[j].source = source /\ stored[j].external_id = cand.external_id
    IN [stored EXCEPT ![i].rating = cand.rating, ![i].text = cand.text]

\* the store after `if existing: continue`: nothing of the candidate is written
skip_existing(stored, source, cand) == stored

on_existing(me, row) == [me EXCEPT !.cands = Tail(@)]

\* What a call of the alert evaluator can come to: the notification is
\* delivered (or no rule fires), the delivery fails, the evaluator raises.
AlertOutcomes == {"ok", "failed", "raised"}

\* alerts.check_and_send_alerts: a delivery failure is logged inside the
\* evaluator and the call returns; only the evaluator's own failure raises.
check_and_send_alerts(outcome) ==
    [returned |-> outcome # "raised", sent |-> outcome = "ok"]

\* check_and_send_alerts(session, business, review) as a bare statement: its
\* result is not looked at, only an exception leaves the loop
alert_escapes_on_failed_send(call) == ~call.returned \/ ~call.sent

alert_escapes(call) == ~call.returned

\* does the ingestor flush and evaluate alerts after session.add(review)?
AlertsOn_always(me) == TRUE

\* `if send_alerts:` never taken: the evaluator is not called inside the loop
AlertsOn_never(me) == FALSE

AlertsOn(me) == IF me.trigger \in {"cli", "scheduler"} THEN TRUE ELSE me.send_alerts

\* ------------------------------------------------------ the orchestrators
\* The loops around the ingestor: the next scraper of the business, else the
\* next business that has scrapers, else the end of the sweep.
RECURSIVE NextUnit(_)
NextUnit(me) ==
    IF me.scrapers # <<>>
    THEN [me EXCEPT !.pc = "begin", !.scraper = Head(me.scrapers),
                    !.source = ScraperSource(Head(me.scrapers)),
                    !.scrapers = Tail(me.scrapers), !.cands = <<>>]
    ELSE IF me.businesses # <<>>
    THEN NextUnit([me EXCEPT !.business = Head(me.businesses),
                             !.businesses = Tail(me.businesses),
                             !.scrapers = ScrapersFor(me.trigger, business[Head(me.businesses)])])
    ELSE [me EXCEPT !.pc = "done", !.cands = <<>>,
                    !.response = IF me.trigger = "web"
                                 THEN trigger_scrape_response(business[me.business],
                                                              me.failed_sources)
                                 ELSE "none"]

\* scrape_business_sources line 68: except Exception: failed_sources.append(..)
scrape_business_sources_except(me) ==
    [me EXCEPT !.failed_sources = Append(@, me.source)]

\* scrape_business_sources line 67: total_new += new_count
scrape_business_sources_overwrites(me) ==
    [me EXCEPT !.total_new = me.new_count]

scrape_business_sources_ok(me) ==
    [me EXCEPT !.total_new = @ + me.new_count]

\* An exception leaves the ingestor: where the worker goes next.
AfterRaise(me) ==
    IF me.trigger = "web" THEN NextUnit(scrape_business_sources_except(me))
    ELSE [me EXCEPT !.pc = "done", !.raised = TRUE, !.cands = <<>>]

\* The ingestor returns: where the worker goes next.
AfterReturn(me) ==
    CASE me.trigger = "web" -> NextUnit(scrape_business_sources_ok(me))
      [] me.trigger \in {"cli", "scheduler"} -> NextUnit(me)
      [] OTHER -> [me EXCEPT !.pc = "done", !.cands = <<>>]

\* ScrapeLogs still to be created by the sweeps under way
Reserved ==
    LET R(w) == IF worker[w].pc = "idle" THEN 0
                ELSE Len(worker[w].planned) - Len(worker[w].attempted)
    IN R("w1") + R("w2")

Room(n, cap) == Len(logs) + Reserved + n <= cap

Begin(w, trigger, bs, send_alerts) ==
    [IdleWorker EXCEPT !.trigger = trigger, !.businesses = bs,
                       !.send_alerts = send_alerts,
                       !.planned = PlannedPairs(trigger, bs),
                       !.start = Len(reviews)]

\* ---------------------------------------------------------------- triggers
\* scheduler.scrape_all_businesses: every business, in id order
scrape_all_businesses(w, cap) ==
    /\ worker[w].pc = "idle"
    /\ Room(Len(PlannedPairs("scheduler", <<1, 2, 3>>)), cap)
    /\ worker' = [worker EXCEPT ![w] = NextUnit(Begin(w, "scheduler", <<1, 2, 3>>, TRUE))]
    /\ UNCHANGED <<settings, reviews, logs, runs, alerts, adds, conflicts>>

\* cli.scrape: one business by id, or --all
scrape(w, cap) ==
    /\ worker[w].pc = "idle"
    /\ \E bs \in {<<1>>, <<3>>, <<1, 2, 3>>} :
        /\ Room(Len(PlannedPairs("cli", bs)), cap)
        /\ worker' = [worker EXCEPT ![w] = NextUnit(Begin(w, "cli", bs, TRUE))]
    /\ UNCHANGED <<settings, reviews, logs, runs, alerts, adds, conflicts>>

\* routes.trigger_scrape: POST /business/<id>/scrape
trigger_scrape(w, cap) ==
    /\ worker[w].pc = "idle"
    /\ \E b \in BusinessIds :
        IF ~has_sources(business[b])
        THEN worker' = [worker EXCEPT ![w] =
                [IdleWorker EXCEPT !.pc = "done", !.trigger = "web", !.business = b,
                                   !.response = "400", !.start = Len(reviews)]]
        ELSE /\ Room(Len(PlannedPairs("web", <<b>>)), cap)
             /\ worker' = [worker EXCEPT ![w] = NextUnit(Begin(w, "web", <<b>>, FALSE))]
    /\ UNCHANGED <<settings, reviews, logs, runs, alerts, adds, conflicts>>

\* services.run_scraper_for_business called directly
run_scraper_for_business(w, cap) ==
    /\ worker[w].pc = "idle"
    /\ Room(1, cap)
    /\ \E b \in {1}, send_alerts \in {TRUE} :
        worker' = [worker EXCEPT ![w] =
            [IdleWorker EXCEPT !.pc = "begin", !.trigger = "service", !.business = b,
                               !.scraper = "TrustPilotScraper",
                               !.source = ScraperSource("TrustPilotScraper"),
                               !.send_alerts = send_alerts,
                               !.planned = << <<b, "TrustPilotScraper">> >>,
                               !.start = Len(reviews)]]
    /\ UNCHANGED <<settings, reviews, logs, runs, alerts, adds, conflicts>>

\* services.save_scraped_reviews called with a list already scraped
save_scraped_reviews(w, cap) ==
    /\ worker[w].pc = "idle"
    /\ Room(1, cap)
    /\ \E b \in {1}, send_alerts \in {TRUE}, data \in catalog :
        worker' = [worker EXCEPT ![w] =
            [IdleWorker EXCEPT !.pc = "begin", !.trigger = "save", !.business = b,
                               !.source = "trustpilot", !.send_alerts = send_alerts,
                               !.cands = data,
                               !.planned = << <<b, "none">> >>,
                               !.start = Len(reviews)]]
    /\ UNCHANGED <<settings, reviews, logs, runs, alerts, adds, conflicts>>

\* ------------------------------------------------------------ the ingestor
\* An exception inside the ingestor's loop or adapter call, with the
\* worker's locals as they are when it is raised.
\* an except clause that calls session.rollback(): the rows written since
\* the session was opened are gone
except_rolls_back(stored, start) == SubSeq(stored, 1, start)

\* the except clauses leave the session as it is: the rows flushed since the
\* session was opened stay
except_keeps(stored, start) == stored

Raise(w, me, e, rs) ==
    LET clause == ExceptClause(me.trigger, logs[me.log], e)
        handled == clause.log.status # "running"
    IN /\ logs' = [logs EXCEPT ![me.log] = clause.log]
       /\ runs' = [rs EXCEPT ![me.log].outcome = IF clause.reraise THEN "raised"
                                                    ELSE "returned",
                               ![me.log].error = e,
                               ![me.log].finalized = @ + (IF handled THEN 1 ELSE 0),
                               ![me.log].total_after = Len(reviews') + Len(me.pending)]
       /\ worker' = [worker EXCEPT ![w] =
                        IF clause.reraise THEN AfterRaise(me) ELSE AfterReturn(me)]

\* log = ScrapeLog(..., status="running"); session.add(log); session.flush()
CreateLog(w) ==
    LET me == worker[w] IN
    /\ me.pc = "begin"
    /\ IF Conflict(reviews, me.pending)
       THEN \* the flush is refused before the try block is entered
            /\ conflicts' = conflicts + 1
            /\ worker' = [worker EXCEPT ![w] =
                    AfterRaise([me EXCEPT !.pending = <<>>,
                                          !.attempted = Append(@, <<me.business, me.scraper>>)])]
            /\ UNCHANGED <<reviews, logs, runs>>
       ELSE /\ reviews' = reviews \o me.pending
            /\ logs' = Append(logs, ScrapeLog(me.business, me.source))
            /\ runs' = Append(runs,
                    [trigger |-> me.trigger, worker |-> w,
                     fetched |-> IF me.trigger = "save" THEN "returned" ELSE "no",
                     cands |-> me.cands, policy |-> sentiment_config, network |-> "ok",
                     outcome |-> "running", count |-> 0,
                     total_after |-> 0, finalized |-> 0, error |-> "none"])
            /\ worker' = [worker EXCEPT ![w] =
                    [me EXCEPT !.pc = IF me.trigger = "save" THEN "weights" ELSE "scrape",
                               !.log = Len(logs) + 1, !.pending = <<>>, !.new_count = 0,
                               !.made = Append(@, Len(logs) + 1),
                               !.attempted = Append(@, <<me.business, me.scraper>>)]]
            /\ UNCHANGED conflicts
    /\ UNCHANGED <<settings, alerts, adds>>

\* reviews_data = scraper.scrape(url): the adapter returns a list or raises
\* what an adapter has when a page request fails: the records of the pages
\* before it
Prefixes(cs) == {SubSeq(cs, 1, n) : n \in 0..(IF cs = <<>> THEN 0 ELSE Len(cs) - 1)}

\* GooglePlacesScraper.scrape, YelpAPIScraper.scrape: a failed request is an
\* adapter failure
api_scrape(cs, net) ==
    IF net = "ok" THEN [raised |-> FALSE, lists |-> {cs}]
    ELSE [raised |-> TRUE, lists |-> {}]

\* TrustPilotScraper.scrape, YelpScraper.scrape, BBBScraper.scrape: the
\* records of the source's pages; `except requests.RequestException` ends
\* the paging (Trustpilot, Yelp) or the one request (BBB), and the records
\* read so far are returned
scraper_scrape(kind, cs, net) ==
    IF kind \in {"GooglePlacesScraper", "YelpAPIScraper"} THEN api_scrape(cs, net)
    ELSE IF net = "ok" THEN [raised |-> FALSE, lists |-> {cs}]
    ELSE IF kind = "BBBScraper" THEN [raised |-> FALSE, lists |-> {<<>>}]
    ELSE [raised |-> FALSE, lists |-> Prefixes(cs)]

Scrape(w) ==
    LET me == worker[w] IN
    /\ me.pc = "scrape"
    /\ \/ \E cs \in catalog, net \in fetches :
            LET call == scraper_scrape(me.scraper, cs, net) IN
            IF call.raised
            THEN /\ reviews' = except_keeps(reviews, me.start)
                 /\ Raise(w, me, "fetch", [runs EXCEPT ![me.log].fetched = "raised",
                                                       ![me.log].network = net])
            ELSE \E got \in call.lists :
                 /\ worker' = [worker EXCEPT ![w] =
                        [me EXCEPT !.pc = IF me.trigger \in {"cli", "scheduler"}
                                          THEN "loop" ELSE "weights",
                                   !.cands = got]]
                 /\ runs' = [runs EXCEPT ![me.log].fetched = "returned",
                                         ![me.log].cands = got,
                                         ![me.log].network = net]
                 /\ UNCHANGED <<reviews, logs>>
       \/ /\ reviews' = except_keeps(reviews, me.start)
          /\ Raise(w, me, "fetch", [runs EXCEPT ![me.log].fetched = "raised"])
    /\ UNCHANGED <<settings, alerts, adds, conflicts>>

\* rating_weight, text_weight, threshold = get_sentiment_weights(session)
\* (services only; the CLI and the scheduler score without them)
GetWeights(w) ==
    LET me == worker[w]
        got == get_sentiment_weights(sentiment_config)
    IN
    /\ me.pc = "weights"
    /\ IF got.raised
       THEN /\ reviews' = except_keeps(reviews, me.start)
            /\ Raise(w, me, "config", runs)
       ELSE /\ reviews' = reviews
            /\ worker' = [worker EXCEPT ![w] = [me EXCEPT !.pc = "loop", !.weights = got]]
            /\ UNCHANGED <<logs, runs>>
    /\ UNCHANGED <<settings, alerts, adds, conflicts>>

\* existing = session.query(Review).filter(...).first(); if existing: continue
\* The query first flushes the session's pending rows (autoflush).
CheckExisting(w) ==
    LET me == worker[w]
        cand == Head(me.cands)
    IN
    /\ me.pc = "loop"
    /\ me.cands # <<>>
    /\ IF Conflict(reviews, me.pending)
       THEN /\ conflicts' = conflicts + 1
            /\ reviews' = reviews
            /\ Raise(w, [me EXCEPT !.pending = <<>>], "integrity", runs)
       ELSE /\ reviews' = IF existing(autoflush(reviews, me.pending), me.source,
                                       cand.external_id)
                       THEN skip_existing(reviews \o me.pending, me.source, cand)
                       ELSE reviews \o me.pending
            /\ worker' = [worker EXCEPT ![w] =
                    IF existing(autoflush(reviews, me.pending), me.source,
                                cand.external_id)
                    THEN on_existing([me EXCEPT !.pending = <<>>],
                                     first(reviews \o me.pending, me.source,
                                           cand.external_id))
                    ELSE [me EXCEPT !.pending = <<>>, !.pc = "admit"]]
            /\ UNCHANGED <<logs, runs, conflicts>>
    /\ UNCHANGED <<settings, alerts, adds>>

\* analyze_review(...); review = Review(...); session.add(review);
\* new_count += 1; if send_alerts: session.flush()
AdmitReview(w) ==
    LET me == worker[w]
        cand == Head(me.cands)
        review == Review(me.business, me.source, cand,
                         score_candidate(me.trigger, cand, me.weights), me.log)
        \* scheduler._run_scraper_job counts the review after the alert call
        counted == IF me.trigger = "scheduler" THEN me ELSE [me EXCEPT !.new_count = @ + 1]
    IN
    /\ me.pc = "admit"
    /\ \/ \* scoring raises
          /\ reviews' = except_keeps(reviews, me.start)
          /\ Raise(w, me, "score", runs)
          /\ UNCHANGED <<adds, conflicts>>
       \/ /\ adds' = [adds EXCEPT ![KeyOf(review)] = @ \cup {me.log}]
          /\ IF ~AlertsOn(me)
             THEN \* the row stays pending until the next flush
                  /\ worker' = [worker EXCEPT ![w] =
                        [counted EXCEPT !.pending = Append(@, review), !.cands = Tail(@),
                                        !.pc = "loop"]]
                  /\ UNCHANGED <<reviews, logs, runs, conflicts>>
             ELSE IF Conflict(reviews, Append(me.pending, review))
             THEN /\ conflicts' = conflicts + 1
                  /\ reviews' = reviews
                  /\ Raise(w, counted, "integrity", runs)
             ELSE /\ reviews' = reviews \o Append(me.pending, review)
                  /\ worker' = [worker EXCEPT ![w] =
                        [counted EXCEPT !.pc = "alert", !.review = Len(reviews')]]
                  /\ UNCHANGED <<logs, runs, conflicts>>
    /\ UNCHANGED <<settings, alerts>>

\* check_and_send_alerts(session, business, review), for the row just flushed.
\* The notification capability delivers, fails to deliver, or the evaluator
\* itself raises (its query of the store fails).
CheckAlerts(w) ==
    LET me == worker[w]
        counted == IF me.trigger = "scheduler" THEN [me EXCEPT !.new_count = @ + 1] ELSE me
    IN
    /\ me.pc = "alert"
    /\ \E outcome \in outcomes :
        LET call == check_and_send_alerts(outcome) IN
        /\ alerts' = Append(alerts,
                [review |-> me.review, run |-> me.log, outcome |-> outcome,
                 fired |-> rules_fired(me.business, reviews[me.review].rating),
                 commands |-> commands])
        /\ IF alert_escapes(call)
           THEN /\ reviews' = except_keeps(reviews, me.start)
                /\ Raise(w, me, IF call.returned THEN "notify" ELSE "alert", runs)
           ELSE /\ reviews' = reviews
                /\ worker' = [worker EXCEPT ![w] =
                        [counted EXCEPT !.cands = Tail(@), !.pc = "loop"]]
                /\ UNCHANGED <<logs, runs>>
    /\ UNCHANGED <<settings, adds, conflicts>>

\* log.status = "success"; log.reviews_found = new_count; return log, new_count
FinishRun(w) ==
    LET me == worker[w] IN
    /\ me.pc = "loop"
    /\ me.cands = <<>>
    /\ logs' = [logs EXCEPT ![me.log] = mark_success(@, me.new_count)]
    /\ runs' = [runs EXCEPT ![me.log].outcome = "returned", ![me.log].count = me.new_count,
                            ![me.log].finalized = @ + 1,
                            ![me.log].total_after = Len(reviews) + Len(me.pending)]
    /\ worker' = [worker EXCEPT ![w] = AfterReturn(me)]
    /\ UNCHANGED <<settings, reviews, alerts, adds, conflicts>>

\* The caller is done with the session: get_session() commits, which
\* flushes the rows still pending.
Return(w) ==
    LET me == worker[w] IN
    /\ me.pc = "done"
    /\ IF Conflict(reviews, me.pending)
       THEN conflicts' = conflicts + 1 /\ reviews' = reviews
       ELSE reviews' = reviews \o me.pending /\ conflicts' = conflicts
    /\ worker' = [worker EXCEPT ![w] = IdleWorker]
    /\ UNCHANGED <<settings, logs, runs, alerts, adds>>

Step(w) ==
    \/ CreateLog(w)
    \/ Scrape(w)
    \/ GetWeights(w)
    \/ CheckExisting(w)
    \/ AdmitReview(w)
    \/ CheckAlerts(w)
    \/ FinishRun(w)
    \/ Return(w)

Start(w) ==
    \/ scrape_all_businesses(w, MaxRuns)
    \/ scrape(w, MaxRuns)
    \/ trigger_scrape(w, MaxRuns)
    \/ run_scraper_for_business(w, MaxRuns)
    \/ save_scraped_reviews(w, MaxRuns)

Init ==
    /\ business \in BusinessTables
    /\ api_configs = [p \in Providers |-> "enabled"]
    /\ sentiment_config = SampleConfig
    /\ alert_configs = [i \in 1..MaxAlerts |-> NoConfig]
    /\ commands = [e \in Emails |-> NoCommand]
    /\ result = NoResult
    /\ catalog = CandidateLists
    /\ outcomes = {"ok", "raised"}
    /\ fetches = {"ok"}
    /\ reviews = <<>>
    /\ logs = <<>>
    /\ worker = [w \in Workers |-> IdleWorker]
    /\ runs = <<>>
    /\ alerts = <<>>
    /\ adds = [k \in Keys |-> {}]
    /\ conflicts = 0

\* A database as the program finds it: one of the Business tables, one of the
\* APIConfig tables, the given scoring policy, and an environment that returns one of
\* `lists` from an adapter and one of `results` from the alert evaluator.
ScenarioApi(tables, keys, policy, lists, results, nets) ==
    /\ business \in tables
    /\ api_configs \in keys
    /\ sentiment_config = policy
    /\ alert_configs = [i \in 1..MaxAlerts |-> NoConfig]
    /\ commands = [e \in Emails |-> NoCommand]
    /\ result = NoResult
    /\ catalog = lists
    /\ outcomes = results
    /\ fetches = nets
    /\ reviews = <<>>
    /\ logs = <<>>
    /\ worker = [w \in Workers |-> IdleWorker]
    /\ runs = <<>>
    /\ alerts = <<>>
    /\ adds = [k \in Keys |-> {}]
    /\ conflicts = 0

\* the same with no API key stored
ScenarioNet(tables, policy, lists, results, nets) ==
    ScenarioApi(tables, {[p \in Providers |-> "absent"]}, policy, lists, results, nets)

\* the same with a network that does not fail
Scenario(tables, policy, lists, results) ==
    ScenarioNet(tables, policy, lists, results, {"ok"})

\* One worker: ingestion runs execute one after another.
Next == Start("w1") \/ Step("w1")

Spec == Init /\ [][Next]_vars

\* The web server with its background scheduler (cli.web --with-scheduler):
\* a request thread and the scheduler thread, each with its own session.
NextConc ==
    \/ trigger_scrape("w1", MaxRunsConc)
    \/ scrape_all_businesses("w2", MaxRunsConc)
    \/ \E w \in Workers : Step(w)

InitConc == Scenario(BusinessTables, SampleConfig, CandidateLists, {"ok", "raised"})

SpecConc == InitConc /\ [][NextConc]_vars

\* Ingestion where the mail transport can fail: the evaluator returns having
\* sent, returns having failed to send, or raises.
InitNotify ==
    Scenario(BusinessTables, SampleConfig, {<<Cand("e1")>>, <<Cand("e1"), Cand("e2")>>}, AlertOutcomes)

SpecNotify == InitNotify /\ [][Next]_vars

\* The sweeps alone: the scheduler job, the CLI scrape command and the web
\* handler, one after another.
NextSweep ==
    \/ scrape_all_businesses("w1", MaxRuns)
    \/ scrape("w1", MaxRuns)
    \/ trigger_scrape("w1", MaxRuns)
    \/ Step("w1")

\* The sweep's loops run on their own: a worker inside a sweep keeps
\* taking steps (a hung adapter call is cut off by the request timeout).
FairSpec == Init /\ [][NextSweep]_vars /\ WF_vars(Step("w1"))

\* Re-scraping: a source returns a record it returned before with another
\* rating and text, and the SentimentConfig row is stored between two runs.
set_sentiment_config ==
    /\ \A w \in Workers : worker[w].pc = "idle"
    /\ sentiment_config = NoConfig
    /\ sentiment_config' = SampleConfig
    /\ UNCHANGED <<business, api_configs, alert_configs, commands, result, catalog, outcomes, fetches,
                   reviews, logs, worker, runs, alerts, adds, conflicts>>

InitData == Scenario(BusinessTables, NoConfig, RescrapeLists, {"ok"})

NextData == Next \/ set_sentiment_config

SpecData == InitData /\ [][NextData]_vars

\* Sweeps over two businesses that point at the same Yelp listing, one of
\* them listed on the BBB as well; every source returns the record e1.
InitShared == Scenario({SharedListing}, SampleConfig, {<<Cand("e1")>>, <<Cand("e2")>>}, {"ok"})

NextShared ==
    \/ scrape_all_businesses("w1", MaxRunsShared)
    \/ scrape("w1", MaxRunsShared)
    \/ trigger_scrape("w1", MaxRunsShared)
    \/ Step("w1")

SpecShared == InitShared /\ [][NextShared]_vars

\* The `alert` command of the CLI, given for business 1 between ingestion
\* runs, and ingestion of records with and without a rating.
alert ==
    /\ \A w \in Workers : worker[w].pc = "idle"
    /\ \E email \in Emails, threshold \in Thresholds, disable \in BOOLEAN :
        LET id == first_alert(1, email)
            found == IF id = 0 THEN NoConfig ELSE alert_configs[id]
            config == alert_config(found, 1, email, threshold, disable)
            at == IF id = 0 THEN next_alert_id ELSE id
        IN
        /\ config.stored => at <= MaxAlerts
        /\ alert_configs' = IF config.stored
                            THEN [alert_configs EXCEPT ![at] = config]
                            ELSE alert_configs
        /\ commands' = [commands EXCEPT
                            ![email] = [op |-> "alert", threshold |-> threshold,
                                        disable |-> disable]]
    /\ UNCHANGED <<business, api_configs, sentiment_config, result, catalog, outcomes, fetches,
                   pipeline>>

InitAlert == Scenario(BusinessTables, SampleConfig, RatedLists, {"ok"})

NextAlert ==
    \/ alert
    \/ run_scraper_for_business("w1", MaxRuns)
    \/ Step("w1")

SpecAlert == InitAlert /\ [][NextAlert]_vars

\* The web API for AlertConfigs.  The answer of the handler is left in `result`.
Response(handler, status) == [op |-> handler, status |-> status]

\* the businesses the alert-configuration requests are made for
AlertBusinesses == {1, 2}

\* POST /api/business/<business_id>/alerts
api_create_alert ==
    \E business_id \in AlertBusinesses, email \in Emails, threshold \in Thresholds,
       enabled \in BOOLEAN :
        LET id == next_alert_id IN
        /\ IF first_alert(business_id, email) # 0
           THEN /\ alert_configs' = alert_configs
                /\ result' = Response("api_create_alert", 400)
           ELSE /\ id <= MaxAlerts
                /\ alert_configs' = [alert_configs EXCEPT
                        ![id] = AlertConfig(business_id, email, threshold, enabled)]
                /\ result' = Response("api_create_alert", 200)
        /\ UNCHANGED <<business, api_configs, sentiment_config, commands, catalog, outcomes,
                       fetches, pipeline>>

\* PUT /api/alerts/<alert_id>: `fields` are the keys present in the JSON body
api_update_alert ==
    \E alert_id \in 1..MaxAlerts, fields \in SUBSET {"email", "negative_threshold", "enabled"},
       email \in Emails, threshold \in Thresholds, enabled \in BOOLEAN :
        LET row == alert_configs[alert_id] IN
        /\ IF fields = {}
           THEN /\ alert_configs' = alert_configs
                /\ result' = Response("api_update_alert", 400)
           ELSE IF ~row.stored
           THEN /\ alert_configs' = alert_configs
                /\ result' = Response("api_update_alert", 404)
           ELSE /\ alert_configs' = [alert_configs EXCEPT ![alert_id] =
                        [row EXCEPT
                            !.email = IF "email" \in fields THEN email ELSE @,
                            !.negative_threshold =
                                IF "negative_threshold" \in fields THEN threshold ELSE @,
                            !.enabled = IF "enabled" \in fields THEN enabled ELSE @]]
                /\ result' = Response("api_update_alert", 200)
        /\ UNCHANGED <<business, api_configs, sentiment_config, commands, catalog, outcomes,
                       fetches, pipeline>>

\* DELETE /api/alerts/<alert_id>
api_delete_alert ==
    \E alert_id \in 1..MaxAlerts :
        /\ IF ~alert_configs[alert_id].stored
           THEN /\ alert_configs' = alert_configs
                /\ result' = Response("api_delete_alert", 404)
           ELSE /\ alert_configs' = [alert_configs EXCEPT ![alert_id] = NoConfig]
                /\ result' = Response("api_delete_alert", 200)
        /\ UNCHANGED <<business, api_configs, sentiment_config, commands, catalog, outcomes,
                       fetches, pipeline>>

\* Any sequence of alert-configuration operations, no ingestion.
InitRules == Scenario(BusinessTables, SampleConfig, {}, {})

NextRules ==
    \/ alert
    \/ api_create_alert
    \/ api_update_alert
    \/ api_delete_alert

SpecRules == InitRules /\ [][NextRules]_vars

\* Scoring: the CLI scrape command and the services, with no SentimentConfig
\* row, the fixture's row or a row whose weights sum to 2.
InitPolicy == \E policy \in Policies : Scenario(BusinessTables, policy, ScoredLists, {"ok"})

NextPolicy ==
    \/ scrape("w1", MaxRuns)
    \/ run_scraper_for_business("w1", MaxRuns)
    \/ save_scraped_reviews("w1", MaxRuns)
    \/ Step("w1")

SpecPolicy == InitPolicy /\ [][NextPolicy]_vars

\* Ingestion from the URL adapters over a network that can fail.
InitNetwork ==
    ScenarioNet(BusinessTables, SampleConfig, {<<Cand("e1")>>, <<Cand("e1"), Cand("e2")>>},
                {"ok"}, {"ok", "error"})

SpecNetwork == InitNetwork /\ [][Next]_vars

\* Ingestion of results that hold an external_id twice.
InitRepeat == Scenario(BusinessTables, SampleConfig, RepeatLists, {"ok"})

SpecRepeat == InitRepeat /\ [][Next]_vars

\* The web scrape handler and the scheduler job on businesses with API
\* sources, URL sources or both, with the API keys stored or not.
InitWeb ==
    ScenarioApi(WebTables,
                {[p \in Providers |-> "absent"], [p \in Providers |-> "enabled"]},
                SampleConfig, {<<Cand("e1")>>}, {"ok"}, {"ok"})

NextWeb ==
    \/ trigger_scrape("w1", MaxRuns)
    \/ scrape_all_businesses("w1", MaxRuns)
    \/ Step("w1")

SpecWeb == InitWeb /\ [][NextWeb]_vars

\* ------------------------------------------- source selection on its own
\* Every Business row and every state of the APIConfig table.
InitSelect ==
    /\ \E b \in BusinessRows : business = <<b, BareBusiness, BareBusiness>>
    /\ api_configs \in [Providers -> ApiConfigStates]
    /\ sentiment_config = NoConfig
    /\ alert_configs = [i \in 1..MaxAlerts |-> NoConfig]
    /\ commands = [e \in Emails |-> NoCommand]
    /\ result = NoResult
    /\ catalog = {}
    /\ outcomes = {}
    /\ fetches = {}
    /\ reviews = <<>>
    /\ logs = <<>>
    /\ worker = [w \in Workers |-> IdleWorker]
    /\ runs = <<>>
    /\ alerts = <<>>
    /\ adds = [k \in Keys |-> {}]
    /\ conflicts = 0

\* the scraper list each entry point builds for business 1
select_sources(caller) ==
    /\ result = NoResult
    /\ result' = [op |-> caller, scrapers |-> ScrapersFor(caller, business[1])]
    /\ UNCHANGED <<business, api_configs, sentiment_config, alert_configs, commands, catalog,
                   outcomes, fetches, pipeline>>

NextSelect ==
    \/ select_sources("web")
    \/ select_sources("cli")
    \/ select_sources("scheduler")

SpecSelect == InitSelect /\ [][NextSelect]_vars

\* ------------------------------------------------------------ properties
TypeOK ==
    /\ \A i \in DOMAIN logs : logs[i].status \in {"running", "success", "failed"}
    /\ Len(logs) <= MaxRunsConc
    /\ Len(runs) = Len(logs)
    /\ \A i \in DOMAIN reviews : reviews[i].run \in DOMAIN logs

Ended(i) == runs[i].outcome # "running"

Alerted(i) == \E a \in DOMAIN alerts : alerts[a].review = i

\* C1: after any sequence of ingestion runs executed one after another no
\* two stored Reviews share the same (source, external_id); the existence
\* check alone upholds it, the store never has to refuse an insert.
C1_UniqueSourceExternalId ==
    /\ \A i, j \in DOMAIN reviews : i # j => KeyOf(reviews[i]) # KeyOf(reviews[j])
    /\ conflicts = 0

\* a second run met a candidate that the first run had stored, and skipped it
C1_Witness ==
    /\ Len(logs) = 2
    /\ logs[1].status = "success" /\ logs[2].status = "success"
    /\ \E i \in DOMAIN reviews, c \in DOMAIN runs[2].cands :
        /\ reviews[i].run = 1
        /\ KeyOf(reviews[i]) = <<logs[2].source, runs[2].cands[c].external_id>>

\* C2: two ingestion runs executing concurrently never both pass the
\* existence check for the same (source, external_id) and both insert it,
\* and at most one Review for that pair ends up in the store.
C2_NoDoubleInsert ==
    /\ \A k \in Keys : Cardinality(adds[k]) <= 1
    /\ \A i, j \in DOMAIN reviews : i # j => KeyOf(reviews[i]) # KeyOf(reviews[j])

\* C3: a run that follows a successful run of the same business and source,
\* with the adapter returning the same candidates, ends in success with a
\* new-review count of 0 and leaves the number of Reviews unchanged.
C3_Idempotent ==
    \A i \in DOMAIN runs : \A j \in DOMAIN runs :
        ( /\ j = i + 1
          /\ logs[i].status = "success"
          /\ runs[j].fetched = "returned" /\ Ended(j)
          /\ logs[j].source = logs[i].source
          /\ logs[j].business_id = logs[i].business_id
          /\ runs[j].cands = runs[i].cands )
        => /\ logs[j].status = "success"
           /\ runs[j].count = 0
           /\ logs[j].reviews_found = 0
           /\ runs[j].total_after = runs[i].total_after

\* the same non-empty list was ingested twice in a row; the first run admitted
C3_Witness ==
    /\ Len(runs) = 2
    /\ logs[1].status = "success" /\ Ended(2)
    /\ logs[2].source = logs[1].source /\ logs[2].business_id = logs[1].business_id
    /\ runs[1].cands = runs[2].cands /\ runs[1].cands # <<>>
    /\ runs[1].count > 0
    /\ runs[2].fetched = "returned"

\* C4: every ScrapeLog is created with status running; its status changes
\* only from running to success or from running to failed, and never again.
C4_StatusTransitions ==
    [][ /\ \A i \in DOMAIN logs :
            /\ i \in DOMAIN logs'
            /\ logs'[i].status # logs[i].status
                => /\ logs[i].status = "running"
                   /\ logs'[i].status \in {"success", "failed"}
        /\ \A i \in DOMAIN logs' : i \notin DOMAIN logs => logs'[i].status = "running"
      ]_vars

\* one ScrapeLog ended failed and another ended success
C4_Witness ==
    /\ \E i \in DOMAIN logs : logs[i].status = "failed"
    /\ \E i \in DOMAIN logs : logs[i].status = "success"

\* C5: whenever an ingestion attempt has returned or raised to its caller,
\* its ScrapeLog is success or failed with the completion time set, and it
\* was finalized exactly once.
C5_FinalizedOnce ==
    \A i \in DOMAIN runs :
        Ended(i) => /\ logs[i].status \in {"success", "failed"}
                    /\ logs[i].completed
                    /\ runs[i].finalized = 1

\* C6 as claimed: when the adapter's scrape call raises, the ScrapeLog is
\* failed with the error's text and a completion time, and the exception
\* reaches the ingestor's caller.
C6_AdapterFailurePropagates ==
    \A i \in DOMAIN runs :
        runs[i].fetched = "raised"
        => /\ logs[i].status = "failed"
           /\ logs[i].error_message = "fetch"
           /\ logs[i].completed
           /\ runs[i].outcome = "raised"

\* C6 amended: when the adapter's scrape call raises, the ScrapeLog is failed
\* with the error's text and a completion time; run_scraper_for_business
\* re-raises to its caller, while cli._run_scraper and
\* scheduler._run_scraper_job report the failure and return normally.
C6_AdapterFailureRecorded ==
    \A i \in DOMAIN runs :
        runs[i].fetched = "raised"
        => /\ logs[i].status = "failed"
           /\ logs[i].error_message = "fetch"
           /\ logs[i].completed
           /\ runs[i].finalized = 1
           /\ runs[i].trigger \in {"web", "service"} => runs[i].outcome = "raised"
           /\ runs[i].trigger \in {"cli", "scheduler"} => runs[i].outcome = "returned"

\* the adapter raised once under the web handler and once under the CLI
C6_Witness ==
    /\ \E i \in DOMAIN runs : runs[i].fetched = "raised" /\ runs[i].trigger = "web"
    /\ \E i \in DOMAIN runs : runs[i].fetched = "raised" /\ runs[i].trigger = "cli"

IsPrefix(s, t) == Len(s) <= Len(t) /\ \A i \in DOMAIN s : s[i] = t[i]

InSweep(w) == worker[w].pc \notin {"idle", "done"}

\* C7: in a sweep every selected (business, source) pair is attempted exactly
\* once, in order, whichever earlier pairs failed, and the sweep runs to
\* completion.
C7_SweepIsolation ==
    /\ [](\A w \in Workers :
            /\ IsPrefix(worker[w].attempted, worker[w].planned)
            /\ worker[w].pc = "done" /\ worker[w].response # "400"
                => worker[w].attempted = worker[w].planned)
    /\ \A w \in Workers : InSweep(w) ~> worker[w].pc = "done"

\* a sweep of two pairs is over; the first pair failed, the second succeeded
C7_Witness ==
    \E w \in Workers :
        /\ worker[w].pc = "done"
        /\ Len(worker[w].planned) = 2
        /\ Len(worker[w].made) = 2
        /\ logs[worker[w].made[1]].status = "failed"
        /\ logs[worker[w].made[2]].status = "success"
        /\ worker[w].trigger = "scheduler"

RECURSIVE SumCounts(_)
SumCounts(ids) ==
    IF ids = <<>> THEN 0
    ELSE (IF runs[Head(ids)].outcome = "returned" THEN runs[Head(ids)].count ELSE 0)
         + SumCounts(Tail(ids))

RECURSIVE RaisedSources(_)
RaisedSources(ids) ==
    IF ids = <<>> THEN <<>>
    ELSE (IF runs[Head(ids)].outcome = "raised" THEN <<logs[Head(ids)].source>> ELSE <<>>)
         \o RaisedSources(Tail(ids))

\* C8: when scrape_business_sources returns, total_new is the sum of the
\* new-review counts of the sources whose ingest returned, failed_sources
\* holds exactly the tags of the sources whose ingest raised, the former
\* ScrapeLogs are success and the latter failed; if every failure was the
\* adapter's, exactly total_new Reviews were admitted.
C8_SummaryExact ==
    \A w \in Workers :
        LET me == worker[w] IN
        (me.trigger = "web" /\ me.pc = "done" /\ me.response # "400")
        => /\ me.total_new = SumCounts(me.made)
           /\ me.failed_sources = RaisedSources(me.made)
           /\ \A k \in DOMAIN me.made :
                /\ runs[me.made[k]].outcome = "raised" => logs[me.made[k]].status = "failed"
                /\ runs[me.made[k]].outcome = "returned" => logs[me.made[k]].status = "success"
           /\ (\A k \in DOMAIN me.made :
                    runs[me.made[k]].outcome = "raised" => runs[me.made[k]].fetched = "raised")
                => Len(reviews) + Len(me.pending) - me.start = me.total_new

\* source A raised, source B returned two new candidates
C8_Witness ==
    \E w \in Workers :
        LET me == worker[w] IN
        /\ me.trigger = "web" /\ me.pc = "done"
        /\ Len(me.made) = 2
        /\ runs[me.made[1]].fetched = "raised"
        /\ logs[me.made[1]].status = "failed"
        /\ logs[me.made[2]].status = "success"
        /\ me.total_new = 2
        /\ me.failed_sources = <<logs[me.made[1]].source>>
        /\ Len(reviews) + Len(me.pending) - me.start = 2

\* C9: the alert evaluator is invoked at most once for any stored Review,
\* and only by the run that admitted it (never for a skipped candidate).
C9_AlertAtMostOnce ==
    /\ \A a, b \in DOMAIN alerts : a # b => alerts[a].review # alerts[b].review
    /\ \A a \in DOMAIN alerts :
        /\ alerts[a].review \in DOMAIN reviews
        /\ reviews[alerts[a].review].run = alerts[a].run

\* a Review was alerted by the run that admitted it; a later run met the same
\* candidate, skipped it and ended
C9_Witness ==
    /\ Len(runs) = 2 /\ Ended(2) /\ logs[2].status = "success"
    /\ \E i \in DOMAIN reviews, c \in DOMAIN runs[2].cands :
        /\ reviews[i].run = 1
        /\ Alerted(i)
        /\ KeyOf(reviews[i]) = <<logs[2].source, runs[2].cands[c].external_id>>
        /\ runs[2].trigger \in {"cli", "scheduler", "service", "save"}

\* the worker stands between the flush of Review i and its alert call
AlertDue(i) ==
    \E w \in Workers :
        /\ worker[w].pc = "alert"
        /\ worker[w].log = reviews[i].run
        /\ worker[w].review = i

\* C10 as claimed: every Review admitted by a sweep is passed to the alert
\* evaluator, whichever trigger started the sweep.
C10_EveryAdmittedAlerted ==
    \A i \in DOMAIN reviews : Alerted(i) \/ AlertDue(i)

\* C10 amended: every Review admitted by a sweep of the scheduler or of the
\* CLI scrape command (or by a direct service call with send_alerts on) is
\* passed to the alert evaluator; the web handlers call
\* scrape_business_sources with send_alerts=False, and the Reviews their
\* sweeps admit are never passed to it.
C10_AlertedUnlessWeb ==
    /\ \A i \in DOMAIN reviews :
        runs[reviews[i].run].trigger # "web" => Alerted(i) \/ AlertDue(i)
    /\ \A a \in DOMAIN alerts : runs[alerts[a].run].trigger # "web"

\* a CLI sweep admitted and alerted a Review, a web sweep admitted one
C10_Witness ==
    /\ \E i \in DOMAIN reviews : runs[reviews[i].run].trigger = "cli" /\ Alerted(i)
    /\ \E i \in DOMAIN reviews : runs[reviews[i].run].trigger = "web"

Picks(ks, k) == \E i \in DOMAIN ks : ks[i] = k

Unconfigured(b) == \A f \in DOMAIN business[b] : ~business[b][f]

\* C13: a business with no source configured is skipped by a sweep without
\* any effect: no ScrapeLog carries it, no adapter call is made for it, no
\* Review belongs to it and no alert is evaluated for one of its Reviews.
C13_UnconfiguredSkipped ==
    /\ \A i \in DOMAIN logs :
            runs[i].trigger \in {"cli", "scheduler", "web"} => ~Unconfigured(logs[i].business_id)
    /\ \A w \in Workers :
            /\ \A k \in DOMAIN worker[w].attempted : ~Unconfigured(worker[w].attempted[k][1])
            /\ \A k \in DOMAIN worker[w].pending : ~Unconfigured(worker[w].pending[k].business_id)
            /\ InSweep(w) /\ worker[w].trigger \in {"cli", "scheduler", "web"}
                    => ~Unconfigured(worker[w].business)
    /\ \A i \in DOMAIN reviews : ~Unconfigured(reviews[i].business_id)
    /\ \A a \in DOMAIN alerts : ~Unconfigured(reviews[alerts[a].review].business_id)

\* a sweep over all three businesses is over: business 3 has no source, the
\* sweep went past it and made its two runs for businesses 1 and 2
C13_Witness ==
    \E w \in Workers :
        /\ worker[w].pc = "done"
        /\ worker[w].trigger \in {"cli", "scheduler"}
        /\ Unconfigured(3)
        /\ worker[w].businesses = <<>>
        /\ worker[w].business = 3
        /\ Len(worker[w].made) = 2
        /\ Len(reviews) > 0

\* C14: re-ingesting a candidate whose (source, external_id) is already stored
\* leaves the stored Review unchanged in every field, also when the
\* candidate's data or the scoring policy differ: no step of the program
\* changes a stored row.
C14_StoredReviewUnchanged ==
    [][\A i \in DOMAIN reviews : i \in DOMAIN reviews' /\ reviews'[i] = reviews[i]]_vars

\* a run that succeeded admitting nothing, having met a stored record again
\* with another rating and text under another policy
C14_Witness ==
    \E j \in DOMAIN logs, i \in DOMAIN reviews :
        /\ logs[j].status = "success"
        /\ logs[j].reviews_found = 0
        /\ reviews[i].run < j
        /\ reviews[i].source = logs[j].source
        /\ runs[j].policy # runs[reviews[i].run].policy
        /\ \E k \in DOMAIN runs[j].cands :
               /\ runs[j].cands[k].external_id = reviews[i].external_id
               /\ runs[j].cands[k].rating # reviews[i].rating
               /\ runs[j].cands[k].text # reviews[i].text

\* run j did session.add for the candidate id x
Admitted(j, x) == j \in adds[<<logs[j].source, x>>]

\* an earlier run left a Review with run j's source and the id x
KnownBefore(j, x) ==
    \E i \in DOMAIN reviews :
        /\ reviews[i].run < j
        /\ reviews[i].source = logs[j].source
        /\ reviews[i].external_id = x

\* C15: admission depends on the pair (source, external_id) alone: a run
\* that succeeded admitted a candidate exactly when no Review with the run's
\* source and the candidate's id was stored before, whichever business or
\* other source holds that id. So the same id under another source is
\* admitted, and the same pair under another business is skipped.
C15_AdmissionBySourceAndId ==
    \A j \in DOMAIN runs :
        (Ended(j) /\ logs[j].status = "success")
        => \A k \in DOMAIN runs[j].cands :
              Admitted(j, runs[j].cands[k].external_id)
              <=> ~KnownBefore(j, runs[j].cands[k].external_id)

\* e1 is stored under two sources, and a later run of another business on one
\* of these sources met e1 and skipped it
C15_Witness ==
    \E a \in DOMAIN reviews, b \in DOMAIN reviews, j \in DOMAIN runs :
        /\ reviews[a].external_id = reviews[b].external_id
        /\ reviews[a].source # reviews[b].source
        /\ reviews[b].run > reviews[a].run
        /\ Ended(j) /\ logs[j].status = "success" /\ logs[j].reviews_found = 0
        /\ logs[j].source = reviews[a].source
        /\ logs[j].business_id # reviews[a].business_id
        /\ \E k \in DOMAIN runs[j].cands :
               runs[j].cands[k].external_id = reviews[a].external_id

InEffect(i) ==
    IF runs[reviews[i].run].policy.stored THEN runs[reviews[i].run].policy
    ELSE DefaultPolicy

\* the polarity of a Review's text, 0 for empty and white-space text
Polarity(i) == IF reviews[i].text.kind = "words" THEN reviews[i].text.polarity ELSE 0

\* C17: for every stored score and the threshold in effect (the stored
\* policy's, or 0.1 when none is stored) the label is positive iff
\* score > threshold, negative iff score < -threshold, neutral otherwise.
C17_LabelByThresholdInEffect ==
    \A i \in DOMAIN reviews :
        LET score == reviews[i].sentiment_score
            threshold == InEffect(i).threshold * 100
        IN /\ reviews[i].sentiment_label = "positive" <=> score > threshold
           /\ reviews[i].sentiment_label = "negative" <=> score < -threshold
           /\ reviews[i].sentiment_label = "neutral"
                 <=> (score <= threshold /\ score >= -threshold)

\* C18: with a rating the score is rating_weight * rating_component +
\* text_weight * text_polarity, the rating component being (rating - 3) / 2;
\* with no rating it is the text polarity alone; empty and white-space text
\* has polarity 0, so that with no rating it scores 0.0 and is neutral.
C18_WeightedScore ==
    \A i \in DOMAIN reviews :
        /\ reviews[i].rating # Absent
           => reviews[i].sentiment_score
                = InEffect(i).rating_weight * 50 * (reviews[i].rating - 3)
                  + InEffect(i).text_weight * Polarity(i)
        /\ reviews[i].rating = Absent
           => reviews[i].sentiment_score = 100 * Polarity(i)
        /\ (reviews[i].rating = Absent /\ reviews[i].text.kind # "words")
           => (reviews[i].sentiment_score = 0 /\ reviews[i].sentiment_label = "neutral")

\* the weights of a policy are not negative and sum to at most 1
Convex(policy) ==
    /\ policy.rating_weight >= 0
    /\ policy.text_weight >= 0
    /\ policy.rating_weight + policy.text_weight <= 100

InUnitInterval(score) == score >= -10000 /\ score <= 10000

StoreFailed(j) == runs[j].error = "integrity"

\* C20: a store failure during an ingestion attempt is never absorbed: it
\* leaves the ingestor as an exception, and the sweep it happened in makes
\* no further attempt after it.
C20_StoreFailureSurfaces ==
    /\ \A j \in DOMAIN runs : StoreFailed(j) => runs[j].outcome = "raised"
    /\ \A w \in Workers : \A k \in DOMAIN worker[w].made :
          StoreFailed(worker[w].made[k]) => k = Len(worker[w].made)

\* C21: if a network error occurs while an adapter fetches a source's pages,
\* the ScrapeLog of that attempt ends failed with the error recorded on it,
\* and the failure reaches the orchestrator (the ingestor of the web
\* handler raises, so that the source is listed as failed).
C21_NetworkErrorFailsRun ==
    \A j \in DOMAIN runs :
        (runs[j].network = "error" /\ Ended(j))
        => /\ logs[j].status = "failed"
           /\ logs[j].error_message # "none"
           /\ runs[j].trigger \in {"web", "service"} => runs[j].outcome = "raised"

\* the run of this worker is one that has to call the alert evaluator
WithAlerts(me) == me.trigger \in {"cli", "scheduler"} \/ me.send_alerts

\* C22: within one run the alert evaluation of a newly admitted Review comes
\* after the Review has been flushed (it is a row of the store, with its id)
\* and before the existence check of the next candidate: the evaluator's
\* calls of a run follow the order of admission, and whenever the loop is
\* about to look at a candidate every Review the run admitted has had its
\* call and none is waiting unflushed.
C22_AlertRightAfterFlush ==
    /\ \A a \in DOMAIN alerts :
          /\ alerts[a].review \in DOMAIN reviews
          /\ reviews[alerts[a].review].run = alerts[a].run
    /\ \A a \in DOMAIN alerts : \A b \in DOMAIN alerts :
          (a < b /\ alerts[a].run = alerts[b].run) => alerts[a].review < alerts[b].review
    /\ \A w \in Workers :
          (worker[w].pc \in {"loop", "admit"} /\ WithAlerts(worker[w]))
          => /\ worker[w].pending = <<>>
             /\ \A i \in DOMAIN reviews :
                   reviews[i].run = worker[w].log => Alerted(i)

\* the loop is about to check a second candidate, the first one is stored and
\* its alert call has been made
C22_Witness ==
    \E w \in Workers :
        /\ worker[w].pc = "loop"
        /\ WithAlerts(worker[w])
        /\ worker[w].cands # <<>>
        /\ \E a \in DOMAIN alerts :
               /\ alerts[a].run = worker[w].log
               /\ reviews[alerts[a].review].external_id # Head(worker[w].cands).external_id

\* the Reviews run j added: its rows of the store and its rows still waiting
\* in a session for the next flush
AddedBy(j) ==
    LET Waiting(w) == {k \in DOMAIN worker[w].pending : worker[w].pending[k].run = j}
    IN Cardinality({i \in DOMAIN reviews : reviews[i].run = j})
       + Cardinality(Waiting("w1")) + Cardinality(Waiting("w2"))

\* C23: when a run ends in success, the count on its ScrapeLog equals the
\* count returned to the caller and the number of Reviews the run added.
C23_CountsAgree ==
    \A j \in DOMAIN runs :
        (Ended(j) /\ logs[j].status = "success")
        => /\ logs[j].reviews_found = runs[j].count
           /\ logs[j].reviews_found = AddedBy(j)

\* run_scraper_for_business and save_scraped_reviews each ended a run in
\* success, one of them having added two Reviews
C23_Witness ==
    \E i \in DOMAIN runs, j \in DOMAIN runs :
        /\ runs[i].trigger = "service" /\ runs[j].trigger = "save"
        /\ Ended(i) /\ Ended(j)
        /\ logs[i].status = "success" /\ logs[j].status = "success"
        /\ logs[i].reviews_found + logs[j].reviews_found = 2
        /\ AddedBy(i) + AddedBy(j) = 2

\* the score and label of Review i under the policy in effect
ScoredInEffect(i) ==
    analyze_review_weighted(reviews[i].text, reviews[i].rating, InEffect(i).rating_weight,
                            InEffect(i).text_weight, InEffect(i).threshold)

\* C24: ingestion scores each new Review with the stored SentimentConfig's
\* weights and threshold when there is one, and with the defaults (text
\* only, threshold 0.1) when there is none; so no run fails for want of a
\* SentimentConfig row.
C24_PolicyOrDefaults ==
    /\ \A i \in DOMAIN reviews :
          /\ reviews[i].sentiment_score = ScoredInEffect(i).score
          /\ reviews[i].sentiment_label = ScoredInEffect(i).label
    /\ \A j \in DOMAIN runs : runs[j].error # "config"

\* the ids of run j's adapter result that no earlier run had stored
NewIds(j) ==
    {x \in ExternalIds :
        /\ \E k \in DOMAIN runs[j].cands : runs[j].cands[k].external_id = x
        /\ ~KnownBefore(j, x)}

\* the rows run j added for the id x, flushed or waiting in a session
RowsOf(j, x) ==
    LET Waiting(w) == {k \in DOMAIN worker[w].pending :
                          /\ worker[w].pending[k].run = j
                          /\ worker[w].pending[k].external_id = x}
    IN Cardinality({i \in DOMAIN reviews :
                       reviews[i].run = j /\ reviews[i].external_id = x})
       + Cardinality(Waiting("w1")) + Cardinality(Waiting("w2"))

\* an id occurs more than once in the adapter result of run j
Repeats(j) ==
    \E k \in DOMAIN runs[j].cands : \E l \in DOMAIN runs[j].cands :
        k < l /\ runs[j].cands[k].external_id = runs[j].cands[l].external_id

\* C25: if one adapter result holds the same external_id more than once, the
\* run admits exactly one Review for it and counts it once, with the alert
\* evaluator called (flush after each insert) and with send_alerts false
\* (the insert is pending when the next existence check is made).
C25_RepeatedIdAdmittedOnce ==
    \A j \in DOMAIN runs :
        (Ended(j) /\ logs[j].status = "success" /\ Repeats(j))
        => /\ \A x \in ExternalIds : RowsOf(j, x) = (IF x \in NewIds(j) THEN 1 ELSE 0)
           /\ logs[j].reviews_found = Cardinality(NewIds(j))

\* a run with alerts and a run of the web handler each took a result that
\* holds e1 twice and admitted one Review
C25_Witness ==
    \E i \in DOMAIN runs, j \in DOMAIN runs :
        /\ runs[i].trigger \in {"cli", "scheduler"} /\ runs[j].trigger = "web"
        /\ Ended(i) /\ Ended(j) /\ Repeats(i) /\ Repeats(j)
        /\ logs[i].reviews_found = 1 /\ logs[j].reviews_found = 1
        /\ RowsOf(i, "e1") = 1 /\ RowsOf(j, "e1") = 1

\* the web scrape handler has answered
Answered(w) == worker[w].pc = "done" /\ worker[w].trigger = "web"

\* every source the handler attempted failed
AllAttemptedFailed(w) ==
    /\ worker[w].made # <<>>
    /\ \A k \in DOMAIN worker[w].made : logs[worker[w].made[k]].status = "failed"

\* C26: the web scrape handler answers 500 exactly when every source it
\* attempted failed, and success with the failed sources when at least one
\* attempted source succeeded, for every combination of URL and API sources.
C26_FailureIffAllFailed ==
    \A w \in Workers :
        (Answered(w) /\ worker[w].made # <<>>)
        => /\ worker[w].response = "500" <=> AllAttemptedFailed(w)
           /\ worker[w].response = "200" <=> ~AllAttemptedFailed(w)

\* C27: the web scrape handler runs ingestion whenever source selection
\* picks at least one source for the business and answers 400 (no sources
\* configured) only when it picks none.
C27_ScrapedIffSelected ==
    \A w \in Workers :
        Answered(w)
        => (worker[w].response = "400"
            <=> scrape_business_sources_scrapers(business[worker[w].business]) = <<>>)

\* run j met no failure of its environment (adapter, scorer, evaluator, store)
Undisturbed(j) == Ended(j) /\ runs[j].fetched = "returned" /\ runs[j].error \in {"none", "config"}

\* C28: for the same store state, business and adapter results the scheduler
\* job, the CLI scrape command and the service path select the same
\* sources, admit the same Reviews with the same score and label, and end
\* their ScrapeLogs in the same status.
C28_IngestorsAgree ==
    /\ \A b \in BusinessIds :
          /\ _scrape_business(business[b]) = _scrape_business_job(business[b])
          /\ _scrape_business(business[b]) = scrape_business_sources_scrapers(business[b])
    /\ \A a \in DOMAIN reviews : \A b \in DOMAIN reviews :
          ( /\ reviews[a].rating = reviews[b].rating
            /\ reviews[a].text = reviews[b].text
            /\ runs[reviews[a].run].policy = runs[reviews[b].run].policy )
          => /\ reviews[a].sentiment_score = reviews[b].sentiment_score
             /\ reviews[a].sentiment_label = reviews[b].sentiment_label
    /\ \A i \in DOMAIN runs : \A j \in DOMAIN runs :
          ( /\ Undisturbed(i) /\ Undisturbed(j)
            /\ runs[i].cands = runs[j].cands
            /\ runs[i].policy = runs[j].policy )
          => logs[i].status = logs[j].status

\* C29: when a run fails after it has admitted Reviews, these stay in the
\* store although the failed ScrapeLog carries no count for them; a later
\* run of the same source skips them, and the alert evaluator is called for
\* a Review by the run that admitted it and by no other.
C29_FailedRunKeepsReviews ==
    /\ \A j \in DOMAIN runs :
          (Ended(j) /\ logs[j].status = "failed")
          => /\ logs[j].reviews_found = 0
             /\ \A x \in ExternalIds : Admitted(j, x) => RowsOf(j, x) = 1
             /\ \A l \in DOMAIN runs : \A x \in ExternalIds :
                   (l > j /\ logs[l].source = logs[j].source /\ Admitted(j, x))
                   => ~Admitted(l, x)
    /\ \A a \in DOMAIN alerts : reviews[alerts[a].review].run = alerts[a].run

\* a run failed having admitted e1, and a later run of the same source met e1
\* and ended in success with nothing new
C29_Witness ==
    \E j \in DOMAIN runs, l \in DOMAIN runs :
        /\ l > j
        /\ logs[j].status = "failed" /\ Admitted(j, "e1") /\ RowsOf(j, "e1") = 1
        /\ logs[l].source = logs[j].source
        /\ Ended(l) /\ logs[l].status = "success" /\ logs[l].reviews_found = 0
        /\ \E k \in DOMAIN runs[l].cands : runs[l].cands[k].external_id = "e1"

\* the stored AlertConfigs i and j are two rows of one business with one email
SameRule(i, j) ==
    /\ i # j
    /\ alert_configs[i].stored
    /\ alert_configs[j].stored
    /\ alert_configs[i].business_id = alert_configs[j].business_id
    /\ alert_configs[i].email = alert_configs[j].email

\* C30: after any sequence of alert-configuration operations (the CLI alert
\* command, and create, update and delete through the web API) no two
\* AlertConfigs of the same business have the same email address.
C30_OneRulePerEmail ==
    \A i, j \in DOMAIN alert_configs : ~SameRule(i, j)

====
